---------------------------- MODULE Spec2Model ----------------------------
(***************************************************************************)
(* Model of fuzzy_logic/stock_market_fuzzy_logic.py (class                 *)
(* StockMarketFuzzyLogic) and of the script fuzzy_logic/main.py.           *)
(*                                                                         *)
(* Numbers.  The program works on Python numbers.  The model keeps every   *)
(* input as an integer count of hundredths (Unit), the precision of the    *)
(* literals of main.py, and computes exactly: a source comparison          *)
(* `x > 70` on a field held in hundredths is written `x > 70 * Unit`, and  *)
(* the quotient bid_ask_spread is kept as an exact fraction.  Rounding of  *)
(* binary floating point and the non-finite values (nan, inf) are outside  *)
(* the model.                                                              *)
(***************************************************************************)
EXTENDS Integers, Sequences, FiniteSets, TLC

VARIABLES
    self,     \* attributes assigned so far on the object under construction / constructed
    a,        \* the caller's reference to the object: "unbound" or "bound"
    exc,      \* the exception that reached the caller: "none" or "ZeroDivisionError"
    ret1,     \* value returned by the latest call of block1 (NotCalled before any)
    ret2,     \* value returned by the latest call of block2
    ret3,     \* value returned by the latest call of block3
    stdout    \* lines printed by the script

vars == <<self, a, exc, ret1, ret2, ret3, stdout>>

-----------------------------------------------------------------------------
(* Bounds and input domains *)

\* half-width, in hundredths, of the window explored around every threshold
Span == 1

\* hundredths per unit: the literals of main.py carry two decimals
Unit == 100

NotCalled == "<not called>"
None == "None"
NoAttributes == [n \in {} |-> 0]

\* the literals of the script
SampleBeta == 128
SampleAsk == 13178
SampleBid == 13175
SampleMaS == 12764
SampleMaL == 10717
SampleRsi == 5064

Around(c) == (c - Span)..(c + Span)

BetaValues == Around(1 * Unit)
AskValues == {0, 200, -200}
BidValues == Around(197) \cup {-197}
MaSValues == {SampleMaS, 12665}
MaLValues == Around(12664) \cup {SampleMaL}
RsiValues == Around(30 * Unit) \cup Around(50 * Unit) \cup Around(70 * Unit)

-----------------------------------------------------------------------------
(* Python arithmetic *)

\* x / y of Python: raises ZeroDivisionError when y is zero, otherwise the
\* quotient, kept as a fraction num/den with den > 0.
TrueDiv(x, y) ==
    IF y = 0 THEN [raised |-> "ZeroDivisionError"]
    ELSE IF y > 0 THEN [raised |-> "none", num |-> x, den |-> y]
    ELSE [raised |-> "none", num |-> -x, den |-> -y]

\* q > n/d for a stored fraction q and a decimal literal n/d (d > 0)
FracGT(q, n, d) == q.num * d > n * q.den

-----------------------------------------------------------------------------
(* class StockMarketFuzzyLogic *)

\* Mutant: the constructor guards the division and stores a zero spread when
\* ask_price is zero instead of letting the division raise.
__init__guarded(ma_s, ma_l, rsi, beta_stock, bid_price, ask_price) ==
    LET raw == [ma_s |-> ma_s, ma_l |-> ma_l, rsi |-> rsi,
                beta_stock |-> beta_stock, bid_price |-> bid_price,
                ask_price |-> ask_price]
        q == IF raw.ask_price = 0 THEN [raised |-> "none", num |-> 0, den |-> 1]
             ELSE TrueDiv(raw.ask_price - raw.bid_price, raw.ask_price)
    IN  [raised |-> "none",
         self |-> raw @@ ("bid_ask_spread" :> [num |-> q.num, den |-> q.den])
                      @@ ("dcm" :> raw.ma_s - raw.ma_l)]

\* The attribute assignments of the constructor, in order.  The division is
\* evaluated after the six raw attributes are assigned and before
\* bid_ask_spread and dcm are; when it raises, the constructor stops there.
__init__(ma_s, ma_l, rsi, beta_stock, bid_price, ask_price) ==
    LET raw == [ma_s |-> ma_s, ma_l |-> ma_l, rsi |-> rsi,
                beta_stock |-> beta_stock, bid_price |-> bid_price,
                ask_price |-> ask_price]
        q == TrueDiv(raw.ask_price - raw.bid_price, raw.ask_price)
    IN  IF q.raised # "none"
        THEN [raised |-> q.raised, self |-> raw]
        ELSE [raised |-> "none",
              self |-> raw @@ ("bid_ask_spread" :> [num |-> q.num, den |-> q.den])
                           @@ ("dcm" :> raw.ma_s - raw.ma_l)]

\* Mutant: the liquidity test is written >= 0.015.
block1_spread_inclusive(o) ==
    IF o.beta_stock > 1 * Unit
    THEN (IF ~FracGT([num |-> 15, den |-> 1000], o.bid_ask_spread.num,
                     o.bid_ask_spread.den) THEN "slight" ELSE "very")
    ELSE IF o.beta_stock < 1 * Unit
    THEN (IF ~FracGT([num |-> 15, den |-> 1000], o.bid_ask_spread.num,
                     o.bid_ask_spread.den) THEN "not" ELSE "slight")
    ELSE "slight"

\* Mutant: the volatility test is written >= 1.
block1_beta_inclusive(o) ==
    IF o.beta_stock >= 1 * Unit
    THEN (IF FracGT(o.bid_ask_spread, 15, 1000) THEN "slight" ELSE "very")
    ELSE IF o.beta_stock < 1 * Unit
    THEN (IF FracGT(o.bid_ask_spread, 15, 1000) THEN "not" ELSE "slight")
    ELSE "slight"

\* Mutant: the liquidity test reads the attribute dcm instead of
\* bid_ask_spread.
block1_reads_dcm(o) ==
    IF o.beta_stock > 1 * Unit
    THEN (IF o.dcm * 1000 > 15 * Unit THEN "slight" ELSE "very")
    ELSE IF o.beta_stock < 1 * Unit
    THEN (IF o.dcm * 1000 > 15 * Unit THEN "not" ELSE "slight")
    ELSE "slight"

\* Validity of strategy
block1(o) ==
    IF o.beta_stock > 1 * Unit
    THEN (IF FracGT(o.bid_ask_spread, 15, 1000) THEN "slight" ELSE "very")
    ELSE IF o.beta_stock < 1 * Unit
    THEN (IF FracGT(o.bid_ask_spread, 15, 1000) THEN "not" ELSE "slight")
    ELSE "slight"

\* Mutant: the upward-trend guard is written rsi >= 50.
block2_rsi_inclusive(o) ==
    IF o.rsi > 70 * Unit
    THEN (IF o.dcm < 1 * Unit THEN "neutral" ELSE "average buy")
    ELSE IF o.rsi >= 50 * Unit
    THEN (IF o.dcm < 1 * Unit THEN "neutral" ELSE "strong buy")
    ELSE IF o.rsi >= 30 * Unit
    THEN (IF o.dcm < 1 * Unit THEN "strong sell" ELSE "neutral")
    ELSE (IF o.dcm < 1 * Unit THEN "average sell" ELSE "neutral")

\* Mutant: the two answers of the overbought band are exchanged.
block2_overbought_swapped(o) ==
    IF o.rsi > 70 * Unit
    THEN (IF o.dcm < 1 * Unit THEN "average buy" ELSE "neutral")
    ELSE IF o.rsi > 50 * Unit
    THEN (IF o.dcm < 1 * Unit THEN "neutral" ELSE "strong buy")
    ELSE IF o.rsi >= 30 * Unit
    THEN (IF o.dcm < 1 * Unit THEN "strong sell" ELSE "neutral")
    ELSE (IF o.dcm < 1 * Unit THEN "average sell" ELSE "neutral")

\* Strength of signals
block2(o) ==
    IF o.rsi > 70 * Unit
    THEN (IF o.dcm < 1 * Unit THEN "neutral" ELSE "average buy")
    ELSE IF o.rsi > 50 * Unit
    THEN (IF o.dcm < 1 * Unit THEN "neutral" ELSE "strong buy")
    ELSE IF o.rsi >= 30 * Unit
    THEN (IF o.dcm < 1 * Unit THEN "strong sell" ELSE "neutral")
    ELSE (IF o.dcm < 1 * Unit THEN "average sell" ELSE "neutral")

\* Mutant: the "slight" / "strong buy" entry returns the "very" row's answer.
block3_wrong_entry(o) ==
    LET validity_of_strategy == block1(o)
        strength_of_signals == block2(o)
    IN  IF validity_of_strategy = "slight"
        THEN (IF strength_of_signals = "average buy" THEN "low confidence buy"
              ELSE IF strength_of_signals = "strong buy" THEN "high confidence buy"
              ELSE IF strength_of_signals = "neutral" THEN "no confidence trade"
              ELSE IF strength_of_signals = "strong sell" THEN "moderate confidence sell"
              ELSE IF strength_of_signals = "average sell" THEN "low confidence sell"
              ELSE None)
        ELSE IF validity_of_strategy = "very"
        THEN (IF strength_of_signals = "average buy" THEN "moderate confidence buy"
              ELSE IF strength_of_signals = "strong buy" THEN "high confidence buy"
              ELSE IF strength_of_signals = "neutral" THEN "no confidence trade"
              ELSE IF strength_of_signals = "strong sell" THEN "high confidence sell"
              ELSE IF strength_of_signals = "average sell" THEN "moderate confidence sell"
              ELSE None)
        ELSE IF validity_of_strategy = "not"
        THEN "no confidence trade"
        ELSE None

\* Mutant: the "very" row lacks its last branch ("average sell"), so that
\* pair falls off the end of the function.
block3_missing_branch(o) ==
    LET validity_of_strategy == block1(o)
        strength_of_signals == block2(o)
    IN  IF validity_of_strategy = "slight"
        THEN (IF strength_of_signals = "average buy" THEN "low confidence buy"
              ELSE IF strength_of_signals = "strong buy" THEN "moderate confidence buy"
              ELSE IF strength_of_signals = "neutral" THEN "no confidence trade"
              ELSE IF strength_of_signals = "strong sell" THEN "moderate confidence sell"
              ELSE IF strength_of_signals = "average sell" THEN "low confidence sell"
              ELSE None)
        ELSE IF validity_of_strategy = "very"
        THEN (IF strength_of_signals = "average buy" THEN "moderate confidence buy"
              ELSE IF strength_of_signals = "strong buy" THEN "high confidence buy"
              ELSE IF strength_of_signals = "neutral" THEN "no confidence trade"
              ELSE IF strength_of_signals = "strong sell" THEN "high confidence sell"
              ELSE None)
        ELSE IF validity_of_strategy = "not"
        THEN "no confidence trade"
        ELSE None

\* Confidence and trading decision.  A path that reaches the end of the
\* function without a return statement yields None.
block3(o) ==
    LET validity_of_strategy == block1(o)
        strength_of_signals == block2(o)
    IN  IF validity_of_strategy = "slight"
        THEN (IF strength_of_signals = "average buy" THEN "low confidence buy"
              ELSE IF strength_of_signals = "strong buy" THEN "moderate confidence buy"
              ELSE IF strength_of_signals = "neutral" THEN "no confidence trade"
              ELSE IF strength_of_signals = "strong sell" THEN "moderate confidence sell"
              ELSE IF strength_of_signals = "average sell" THEN "low confidence sell"
              ELSE None)
        ELSE IF validity_of_strategy = "very"
        THEN (IF strength_of_signals = "average buy" THEN "moderate confidence buy"
              ELSE IF strength_of_signals = "strong buy" THEN "high confidence buy"
              ELSE IF strength_of_signals = "neutral" THEN "no confidence trade"
              ELSE IF strength_of_signals = "strong sell" THEN "high confidence sell"
              ELSE IF strength_of_signals = "average sell" THEN "moderate confidence sell"
              ELSE None)
        ELSE IF validity_of_strategy = "not"
        THEN "no confidence trade"
        ELSE None

-----------------------------------------------------------------------------
(* State machine: a caller constructs one object and calls its methods *)

Init ==
    /\ self = NoAttributes
    /\ a = "unbound"
    /\ exc = "none"
    /\ ret1 = NotCalled
    /\ ret2 = NotCalled
    /\ ret3 = NotCalled
    /\ stdout = <<>>

\* a = StockMarketFuzzyLogic(ma_s=..., ..., ask_price=...) with any inputs of
\* the domains: the name is bound only when the constructor returns; an
\* exception leaves it unbound.
Construct ==
    /\ a = "unbound"
    /\ exc = "none"
    /\ \E ma_s \in MaSValues, ma_l \in MaLValues, rsi \in RsiValues,
          beta_stock \in BetaValues, bid_price \in BidValues,
          ask_price \in AskValues :
          LET r == __init__(ma_s, ma_l, rsi, beta_stock, bid_price, ask_price)
          IN  /\ self' = r.self
              /\ exc' = r.raised
              /\ a' = IF r.raised = "none" THEN "bound" ELSE "unbound"
    /\ UNCHANGED <<ret1, ret2, ret3, stdout>>

\* a.block1()
Block1 ==
    /\ a = "bound"
    /\ ret1' = block1(self)
    /\ UNCHANGED <<self, a, exc, ret2, ret3, stdout>>

\* Mutant: block2 rebases the crossover value in place (self.dcm -= 1) before
\* classifying it.
Block2_in_place ==
    /\ a = "bound"
    /\ self' = [self EXCEPT !.dcm = @ - 1 * Unit]
    /\ ret2' = block2(self')
    /\ UNCHANGED <<a, exc, ret1, ret3, stdout>>

\* a.block2()
Block2 ==
    /\ a = "bound"
    /\ ret2' = block2(self)
    /\ UNCHANGED <<self, a, exc, ret1, ret3, stdout>>

\* a.block3(): calls block1 and block2 on the same object
Block3 ==
    /\ a = "bound"
    /\ ret3' = block3(self)
    /\ UNCHANGED <<self, a, exc, ret1, ret2, stdout>>

\* The script: construct the object from the literals and print block3().
Main ==
    /\ a = "unbound"
    /\ exc = "none"
    /\ LET r == __init__(SampleMaS, SampleMaL, SampleRsi, SampleBeta,
                         SampleBid, SampleAsk)
       IN  /\ self' = r.self
           /\ exc' = r.raised
           /\ a' = IF r.raised = "none" THEN "bound" ELSE "unbound"
           /\ ret3' = IF r.raised = "none" THEN block3(r.self) ELSE ret3
           /\ stdout' = IF r.raised = "none"
                        THEN Append(stdout, block3(r.self)) ELSE stdout
    /\ UNCHANGED <<ret1, ret2>>

Next ==
    \/ Construct
    \/ Block1
    \/ Block2
    \/ Block3
    \/ Main

Spec == Init /\ [][Next]_vars

-----------------------------------------------------------------------------
(* Vocabulary of the properties *)

Validity == {"very", "slight", "not"}
Strength == {"strong buy", "average buy", "neutral", "strong sell", "average sell"}
Decisions == {"high confidence buy", "moderate confidence buy", "low confidence buy",
              "high confidence sell", "moderate confidence sell", "low confidence sell",
              "no confidence trade"}
BuyDecisions == {"high confidence buy", "moderate confidence buy", "low confidence buy"}
SellDecisions == {"high confidence sell", "moderate confidence sell", "low confidence sell"}

Constructed == a = "bound"

\* (ask_price - bid_price) / ask_price > 0.015 over the raw attributes, as an
\* inequality of real numbers (ask_price # 0)
IlliquidRaw(o) ==
    IF o.ask_price > 0
    THEN (o.ask_price - o.bid_price) * 1000 > 15 * o.ask_price
    ELSE (o.ask_price - o.bid_price) * 1000 < 15 * o.ask_price

\* the stored bid_ask_spread > 0.015
Illiquid(o) == o.bid_ask_spread.num * 1000 > 15 * o.bid_ask_spread.den

\* The decision table of rule block 3, row by validity, column by strength.
DecisionTable ==
    [v \in Validity |->
        [s \in Strength |->
            IF v = "very" THEN
                CASE s = "strong buy" -> "high confidence buy"
                  [] s = "average buy" -> "moderate confidence buy"
                  [] s = "neutral" -> "no confidence trade"
                  [] s = "strong sell" -> "high confidence sell"
                  [] s = "average sell" -> "moderate confidence sell"
            ELSE IF v = "slight" THEN
                CASE s = "strong buy" -> "moderate confidence buy"
                  [] s = "average buy" -> "low confidence buy"
                  [] s = "neutral" -> "no confidence trade"
                  [] s = "strong sell" -> "moderate confidence sell"
                  [] s = "average sell" -> "low confidence sell"
            ELSE "no confidence trade"]]

-----------------------------------------------------------------------------
(* C1: whenever block3 has returned on a constructed record, the value is  *)
(* the decision-table entry for the pair (block1(), block2()) of that      *)
(* record: the "very" row, the "slight" row, and "no confidence trade"     *)
(* throughout the "not" row.                                               *)
C1_Block3IsTableEntry ==
    (Constructed /\ ret3 # NotCalled) =>
        /\ block1(self) \in Validity
        /\ block2(self) \in Strength
        /\ ret3 = DecisionTable[block1(self)][block2(self)]

C1_Witness ==
    /\ Constructed
    /\ ret1 = "slight"
    /\ ret2 = "average sell"
    /\ ret3 = "low confidence sell"

(* C2: block1 is total on constructed records and returns "very" for       *)
(* beta > 1 with spread <= 0.015, "slight" for beta > 1 with spread >      *)
(* 0.015, "not" for beta < 1 with spread > 0.015, "slight" for beta < 1    *)
(* with spread <= 0.015, "slight" for beta = 1 whatever the spread, and    *)
(* nothing else.                                                           *)
C2_Block1Cases ==
    Constructed =>
        /\ block1(self) \in Validity
        /\ ret1 # NotCalled =>
            /\ (self.beta_stock > Unit /\ ~Illiquid(self)) => ret1 = "very"
            /\ (self.beta_stock > Unit /\ Illiquid(self)) => ret1 = "slight"
            /\ (self.beta_stock < Unit /\ Illiquid(self)) => ret1 = "not"
            /\ (self.beta_stock < Unit /\ ~Illiquid(self)) => ret1 = "slight"
            /\ self.beta_stock = Unit => ret1 = "slight"

\* beta exactly 1 on an illiquid stock, and block1 has answered
C2_Witness ==
    /\ Constructed
    /\ self.beta_stock = Unit
    /\ Illiquid(self)
    /\ ret1 = "slight"

C4_Block3NeverNone ==
    Constructed =>
        /\ self.ask_price # 0
        /\ block1(self) \in Validity
        /\ block2(self) \in Strength
        /\ ret1 \in Validity \cup {NotCalled}
        /\ ret2 \in Strength \cup {NotCalled}
        /\ ret3 \in Decisions \cup {NotCalled}
        /\ ret3 # None

\* the last branch of the last nested conditional of block3 has returned
C4_Witness ==
    /\ Constructed
    /\ block1(self) = "very"
    /\ block2(self) = "average sell"
    /\ ret3 = "moderate confidence sell"

(* C5: a construction with ask_price = 0 ends in ZeroDivisionError at the  *)
(* caller: the name is never bound, bid_ask_spread (and dcm) are never     *)
(* stored, and no method has returned anything.                            *)
C5_ZeroAskRaises ==
    ("ask_price" \in DOMAIN self /\ self.ask_price = 0) =>
        /\ exc = "ZeroDivisionError"
        /\ a = "unbound"
        /\ "bid_ask_spread" \notin DOMAIN self
        /\ "dcm" \notin DOMAIN self
        /\ ret1 = NotCalled /\ ret2 = NotCalled /\ ret3 = NotCalled
        /\ stdout = <<>>

C5_Witness ==
    /\ exc = "ZeroDivisionError"
    /\ a = "unbound"
    /\ DOMAIN self = {"ma_s", "ma_l", "rsi", "beta_stock", "bid_price", "ask_price"}
    /\ self.ask_price = 0
    /\ self.bid_price # 0

C7_Repeatable ==
    [][/\ Constructed => (a' = a /\ self' = self)
       /\ ret1 # NotCalled => ret1' = ret1
       /\ ret2 # NotCalled => ret2' = ret2
       /\ ret3 # NotCalled => ret3' = ret3]_vars

\* all three methods have been called on one record
C7_Witness ==
    /\ Constructed
    /\ DOMAIN self = {"ma_s", "ma_l", "rsi", "beta_stock", "bid_price", "ask_price",
                      "bid_ask_spread", "dcm"}
    /\ ret1 = "not"
    /\ ret2 = "strong buy"
    /\ ret3 = "no confidence trade"

(* C8: as the class documentation puts the thresholds ("Buy signal:        *)
(* greater than 1.0", "Sell signal: less than 1.0"), block2 returns a buy  *)
(* strength only when dcm > 1 and a sell strength only when dcm < 1.       *)
C8_DocumentedCrossoverThresholds ==
    (Constructed /\ ret2 # NotCalled) =>
        /\ ret2 \in {"average buy", "strong buy"} => self.dcm > 1 * Unit
        /\ ret2 \in {"strong sell", "average sell"} => self.dcm < 1 * Unit

\* every (validity, strength) pair some constructible record yields
ReachedPairs ==
    {<<block1(r.self), block2(r.self)>> :
        r \in {c \in {__init__(ma_s, ma_l, rsi, beta_stock, bid_price, ask_price) :
                        ma_s \in MaSValues, ma_l \in MaLValues, rsi \in RsiValues,
                        beta_stock \in BetaValues, bid_price \in BidValues,
                        ask_price \in AskValues} : c.raised = "none"}}

(* C9: block1's answer on a record is the answer on every record with the  *)
(* same beta_stock, bid_price and ask_price, whatever ma_s, ma_l and rsi   *)
(* are; block2's answer is the answer on every record with the same ma_s,  *)
(* ma_l and rsi, whatever beta_stock, bid_price and ask_price (# 0) are;   *)
(* and all 3 x 5 (validity, strength) pairs are produced by some record.   *)
C9_StagesIndependent ==
    /\ ReachedPairs = Validity \X Strength
    /\ (Constructed /\ ret1 # NotCalled) =>
        \A ma_s \in MaSValues, ma_l \in MaLValues, rsi \in RsiValues :
            block1(__init__(ma_s, ma_l, rsi, self.beta_stock, self.bid_price,
                            self.ask_price).self) = ret1
    /\ (Constructed /\ ret2 # NotCalled) =>
        \A beta_stock \in BetaValues, bid_price \in BidValues,
           ask_price \in AskValues \ {0} :
            block2(__init__(self.ma_s, self.ma_l, self.rsi, beta_stock, bid_price,
                            ask_price).self) = ret2

\* both stages have answered on one record
C9_Witness ==
    /\ Constructed
    /\ ret1 = "very"
    /\ ret2 = "average sell"
    /\ ret3 = NotCalled

(* C10: block3 returns a buy decision only if dcm >= 1 and rsi > 50, a     *)
(* sell decision only if dcm < 1 and rsi <= 50, a "high confidence"        *)
(* decision only if beta > 1 and spread <= 0.015, a "low confidence"       *)
(* decision only if block1 is "slight"; and with beta < 1 and spread >     *)
(* 0.015 it returns "no confidence trade" for every dcm and rsi.           *)
C10_DecisionConsistent ==
    (Constructed /\ ret3 # NotCalled) =>
        /\ ret3 \in BuyDecisions =>
            (self.ma_s - self.ma_l >= Unit /\ self.rsi > 50 * Unit)
        /\ ret3 \in SellDecisions =>
            (self.ma_s - self.ma_l < Unit /\ self.rsi <= 50 * Unit)
        /\ ret3 \in {"high confidence buy", "high confidence sell"} =>
            (self.beta_stock > Unit /\ ~IlliquidRaw(self))
        /\ ret3 \in {"low confidence buy", "low confidence sell"} =>
            block1(self) = "slight"
        /\ (self.beta_stock < Unit /\ IlliquidRaw(self)) =>
            ret3 = "no confidence trade"

\* a low volatility, illiquid stock with a strong buy signal
C10_Witness ==
    /\ Constructed
    /\ self.beta_stock < Unit
    /\ IlliquidRaw(self)
    /\ block2(self) = "strong buy"
    /\ ret3 = "no confidence trade"

=============================================================================
